---- MODULE Spec2Model ----
(***************************************************************************)
(* AlpacaTracker: the poll / render / deliver cycle of src/src/tracker.js  *)
(* with its collaborators ServerFetcher, MessageStorage, WebhookClient and *)
(* EmbedBuilder.  One action per event-loop task: a trigger of            *)
(* checkServer, the completion of the awaited axios.get, of the retry      *)
(* sleep, of each destination's PATCH / POST and of Promise.allSettled.    *)
(* Each action runs the code from the point where the awaited call         *)
(* completes up to the next awaited I/O.                                   *)
(***************************************************************************)
EXTENDS Integers, Sequences, FiniteSets, TLC

\* ---------------------------------------------------------------- bounds
\* Largest value of consecutiveErrors the model explores.
MaxConsecutive == 3
\* Largest message id the webhook API ever hands out (ids 2..MaxId are fresh).
MaxId == 2
\* Most entries of a Map saved and loaded on its own.
MaxEntries == 3
\* Most path segments of a destination URL that is masked on its own.
MaxSegments == 5
\* Most players reported by a server state that is rendered on its own.
MaxHumans == 41
\* Most entries of a humanData list that is sorted on its own.
MaxPlayers == 4
\* formatTime is applied to every number of seconds up to this one.
MaxSeconds == 130

\* ------------------------------------------------------- program constants
maxRetries == 3
ErrorThreshold == 3
progressBarLength == 40
DefaultMaxClients == 24
DefaultIntervalMinutes == 3
\* Significand width of a JavaScript number.
MantissaBits == 53

\* ------------------------------------------------------------ value sets
Dests == {"d1", "d2", "d3"}
\* Configured destination lists (parseWebhookUrls de-duplicates them).
WebhookUrlSets == {{}, {"d1"}, {"d1", "d2"}, {"d1", "d2", "d3"}}
\* Map.get of an absent key / a response without id.
None == 0
OldId == 1
\* pollInterval as received by createServerEmbed when the caller omits it.
Undefined == "undefined"

\* Config.pollInterval, '58 * * * * *'.
ConfigPollInterval == <<<<"5", "8">>, <<"*">>, <<"*">>, <<"*">>, <<"*">>, <<"*">>>>
DigitChars == {"0", "1", "2", "3", "4", "5", "6", "7", "8", "9"}
Digit == [c \in DigitChars |->
            CHOOSE n \in 0..9 : <<"0", "1", "2", "3", "4", "5", "6", "7", "8", "9">>[n + 1] = c]
NaN == -1

NoErr == <<"none", 0>>
RenderErr == <<"TypeError", 0>>
RangeErr == <<"RangeError", 0>>
FetchErr(k) == <<"fetch", k>>

\* Keys of the message-id Map: destination URLs and, when message-ids.json
\* holds a JSON array, the array index Object.entries yields for it.
Keys == Dests \cup {"0"}
EmptyMap == [k \in Keys |-> None]
\* Destinations with an id on record in message-ids.json at start-up.
StoredKeys == {{}, {"d1"}, {"d2", "d3"}, {"d1", "d2", "d3"}}
\* Contents of message-ids.json at start-up: no file, text JSON.parse
\* rejects, the JSON text null, a JSON array of one id, or a JSON object.
Files ==
    {[kind |-> "missing", map |-> EmptyMap], [kind |-> "malformed", map |-> EmptyMap],
     [kind |-> "null", map |-> EmptyMap],
     [kind |-> "array", map |-> [k \in Keys |-> IF k = "0" THEN OldId ELSE None]]}
    \cup {[kind |-> "json", map |-> [k \in Keys |-> IF k \in K THEN OldId ELSE None]] :
             K \in StoredKeys}

\* Bodies returned by the server-info endpoint (absent field = 0).
ServerDatas == [numHumans : {0, 12, 30}, maxClients : {0, 24}]

NoDelivery == [done |-> FALSE, successCount |-> 0, total |-> 0, ok |-> FALSE]
Unsettled == [status |-> "none", value |-> FALSE]
Pending == [status |-> "pending", value |-> FALSE]
Fulfilled(v) == [status |-> "fulfilled", value |-> v]
\* probe while the tracker itself runs.
NoProbe == [op |-> "none"]

VARIABLES
    webhookUrls,          \* Config.webhookUrls
    configPollInterval,   \* Config.pollInterval, as split(' ') cuts it into fields
    file,                 \* message-ids.json
    lastMessageIds,       \* the Map shared by MessageStorage and WebhookClient
    issued,               \* highest message id the webhook API has handed out
    lastSave,             \* how the latest saveMessageIds call ended: ok or failed (warned)
    isRunning,            \* AlpacaTracker.isRunning
    pc,                   \* what the running cycle awaits: idle, get, sleep, deliver
    retryCount,           \* fetchServerInfo's argument
    consecutiveErrors,    \* ServerFetcher.consecutiveErrors
    caught,               \* error caught by checkServer in the last cycle
    payload,              \* embed handed to sendDiscordNotification
    playerCount,          \* processServerData's local across the await
    lastNotificationTime,
    lastPlayerCount,
    inflight,             \* per destination, request awaited by sendToWebhook
    results,              \* per destination, settled promise of sendToWebhook
    getCalls,             \* axios.get calls of the last fetch
    sleeps,               \* sleep calls of the last fetch
    patchCount,           \* axios.patch calls per destination, this delivery
    postCount,            \* axios.post calls per destination, this delivery
    activeCycles,         \* checkServer invocations between guard and finally
    skipped,              \* the latest cycle has logged a skipped trigger
    delivery,             \* what the last sendDiscordNotification returned
    postedId,             \* per destination, data.id of this delivery's POST response
    failedId,             \* per destination, id whose PATCH failed in this delivery
    exhaustedStreak,      \* fetch calls that threw since the last resolved GET
    unhandled,            \* a checkServer promise has rejected
    probe                 \* a component exercised on its own: its inputs and outputs

vars == <<webhookUrls, configPollInterval, file, lastMessageIds, issued, lastSave, isRunning, pc, retryCount,
          consecutiveErrors, caught, payload, playerCount, lastNotificationTime,
          lastPlayerCount, inflight, results, getCalls, sleeps, patchCount,
          postCount, activeCycles, skipped, delivery, postedId, failedId,
          exhaustedStreak, unhandled, probe>>

\* Everything but probe.
trackerVars == <<webhookUrls, configPollInterval, file, lastMessageIds, issued,
                 lastSave, isRunning, pc, retryCount, consecutiveErrors, caught,
                 payload, playerCount, lastNotificationTime, lastPlayerCount,
                 inflight, results, getCalls, sleeps, patchCount, postCount,
                 activeCycles, skipped, delivery, postedId, failedId,
                 exhaustedStreak, unhandled>>

configVars == <<webhookUrls, configPollInterval>>
storeVars == <<file, lastMessageIds, issued, lastSave>>
fetchVars == <<retryCount, consecutiveErrors, getCalls, sleeps>>
destVars == <<inflight, results, patchCount, postCount, postedId, failedId>>
trackVars == <<lastNotificationTime, lastPlayerCount>>

\* ------------------------------------------------------- MessageStorage
\* existsSync false: nothing is read.  JSON.parse throws on malformed text
\* and Object.entries throws on null: caught, the Map stays empty.  For an
\* object and for an array alike Object.entries yields the entries that are
\* set into the Map.
loadMessageIds(f) ==
    IF f.kind \in {"missing", "malformed", "null"} THEN EmptyMap ELSE f.map

saveMessageIdsNoFlush(map, f, writeOk) == f

saveMessageIds(map, f, writeOk) ==
    IF writeOk THEN [kind |-> "json", map |-> map] ELSE f

\* The new entry replaces the mapping instead of joining it.
setMessageIdAlone(map, d, id) == [k \in Keys |-> IF k = d THEN id ELSE None]

setMessageId(map, d, id) == [map EXCEPT ![d] = id]

\* The Map is cleared instead of losing one key.
deleteMessageIdClears(map, d) == EmptyMap

deleteMessageId(map, d) == [map EXCEPT ![d] = None]

\* ---------------------------------------------------------- EmbedBuilder
\* Math.round of the non-negative ratio a / b.
Round(a, b) == (2 * a + b) \div (2 * b)

createServerEmbed(serverData, pollInterval) ==
    LET humans == serverData.numHumans
        maxPlayers == IF serverData.maxClients = 0 THEN DefaultMaxClients
                      ELSE serverData.maxClients
        filledBars == Round(humans * progressBarLength, maxPlayers)
    IN [raised |-> \/ filledBars > progressBarLength
                   \/ pollInterval = Undefined,
        error |-> IF filledBars > progressBarLength THEN RangeErr
                  ELSE IF pollInterval = Undefined THEN RenderErr
                  ELSE NoErr,
        playerCount |-> humans]

\* The pollInterval argument processServerData passes: none.
processServerDataPollInterval == Undefined

\* parseInt of a string given as its characters: the value of the leading
\* decimal digits, NaN when there are none.
RECURSIVE ParseDigits(_, _)
ParseDigits(s, acc) ==
    IF s = <<>> \/ Head(s) \notin DigitChars THEN acc
    ELSE ParseDigits(Tail(s), 10 * acc + Digit[Head(s)])

parseInt(s) == IF s = <<>> \/ Head(s) \notin DigitChars THEN NaN ELSE ParseDigits(s, 0)

startsWithStarSlash(s) == Len(s) >= 2 /\ s[1] = "*" /\ s[2] = "/"

\* intervalMinutes of getNextRefreshTimestamp, for the fields of pollInterval.
intervalMinutes(cronParts) ==
    IF startsWithStarSlash(cronParts[1])
    THEN LET n == parseInt(SubSeq(cronParts[1], 3, Len(cronParts[1])))
         IN IF n = NaN \/ n = 0 THEN DefaultIntervalMinutes ELSE n
    ELSE DefaultIntervalMinutes

\* Seconds between two ticks of the task cron.schedule creates for an
\* expression whose fields after the first are all "*": six fields start
\* with the seconds field, five with the minutes field.
cronPeriodSeconds(cronParts) ==
    LET unit == IF Len(cronParts) = 6 THEN 1 ELSE 60
        first == cronParts[1]
    IN IF first = <<"*">> THEN unit
       ELSE IF startsWithStarSlash(first)
            THEN parseInt(SubSeq(first, 3, Len(first))) * unit
            ELSE 60 * unit

\* ----------------------------------------------------------- ServerFetcher
shouldRetryOffByOne(rc) == rc <= maxRetries

shouldRetry(rc) == rc < maxRetries

\* A resolved GET leaves the counter alone.
errorsAfterSuccessKept(errors) == errors

\* fetchServerInfo resets the counter before it returns the data.
errorsAfterSuccess(errors) == 0

errorsAfterEveryFailure(errors, rc) == errors + 1

errorsAfterFailure(errors, rc) == IF shouldRetry(rc) THEN errors ELSE errors + 1

thrownError(rc) == FetchErr(rc)

\* Every retry issues two requests.
callsAfterDoubleRetry(calls) == calls + 2

\* axios.get calls once fetchServerInfo(retryCount + 1) has issued its own.
callsAfterRetry(calls) == calls + 1

\* ----------------------------------------------------------- WebhookClient
\* Effects of sendToWebhook once the awaited request completes.
onPatchOkFallsThrough(map, d) ==
    [ids |-> map, save |-> FALSE, post |-> TRUE, result |-> Pending]

onPatchOk(map, d) ==
    [ids |-> map, save |-> FALSE, post |-> FALSE,
     result |-> [status |-> "fulfilled", value |-> TRUE]]

onPatchFailKeepsId(map, d) ==
    [ids |-> map, save |-> FALSE, post |-> TRUE, result |-> Pending]

onPatchFail(map, d) ==
    [ids |-> deleteMessageId(map, d), save |-> TRUE, post |-> TRUE,
     result |-> Pending]

onPostOkForgetsId(map, d, id) ==
    [ids |-> map, save |-> FALSE, post |-> FALSE,
     result |-> [status |-> "fulfilled", value |-> TRUE]]

\* A response without id counts as a failed delivery.
onPostOkRequiresId(map, d, id) ==
    [ids |-> IF id # None THEN setMessageId(map, d, id) ELSE map,
     save |-> id # None, post |-> FALSE,
     result |-> [status |-> "fulfilled", value |-> id # None]]

onPostOk(map, d, id) ==
    [ids |-> IF id # None THEN setMessageId(map, d, id) ELSE map,
     save |-> id # None, post |-> FALSE,
     result |-> [status |-> "fulfilled", value |-> TRUE]]

onPostFailRethrows(map, d) ==
    [ids |-> map, save |-> FALSE, post |-> FALSE,
     result |-> [status |-> "rejected", value |-> FALSE]]

onPostFailRetries(map, d) ==
    [ids |-> map, save |-> FALSE, post |-> TRUE, result |-> Pending]

onPostFail(map, d) ==
    [ids |-> map, save |-> FALSE, post |-> FALSE,
     result |-> [status |-> "fulfilled", value |-> FALSE]]

\* First request of sendToWebhook: PATCH when an id is on record, else POST.
firstRequest(map, d) == IF map[d] # None THEN "patch" ELSE "post"

anySettled(res, urls) == \E d \in urls : res[d].status \in {"fulfilled", "rejected"}

allSettled(res, urls) == \A d \in urls : res[d].status \in {"fulfilled", "rejected"}

sendDiscordNotificationAllRequired(res, urls) ==
    LET successCount ==
            Cardinality({d \in urls : res[d].status = "fulfilled" /\ res[d].value})
    IN [done |-> TRUE, successCount |-> successCount, total |-> Cardinality(urls),
        ok |-> successCount > 0 /\ successCount = Cardinality(urls)]

sendDiscordNotificationResult(res, urls) ==
    LET successCount ==
            Cardinality({d \in urls : res[d].status = "fulfilled" /\ res[d].value})
    IN [done |-> TRUE, successCount |-> successCount, total |-> Cardinality(urls),
        ok |-> successCount > 0]

\* ------------------------------------------------------------ AlpacaTracker
checkServerNeverSkips(running) == FALSE

checkServerSkips(running) == running

\* isRunning cleared at the end of the try block only.
isRunningWithoutFinally(outcome) == outcome = "caught"

isRunningAfterFinally(outcome) == FALSE

\* A skipped trigger is run when the cycle ends.
pcAfterQueuedTrigger(skippedTrigger) == IF skippedTrigger THEN "get" ELSE "idle"

\* Where the controller is once checkServer has returned: a trigger that
\* was skipped left nothing behind.
pcAfterFinally(skippedTrigger) == "idle"

\* finally block of checkServer.
Finally(outcome) ==
    /\ isRunning' = isRunningAfterFinally(outcome)
    /\ activeCycles' = activeCycles - 1
    /\ pc' = pcAfterFinally(skipped)
    /\ payload' = "none"
    /\ skipped' = skipped
    /\ unhandled' = (unhandled \/ outcome = "thrown")

\* sendDiscordNotification up to its await: every sendToWebhook issues its
\* first request.
StartDelivery(kind) ==
    /\ pc' = "deliver"
    /\ payload' = kind
    /\ inflight' = [d \in Dests |-> IF d \in webhookUrls
                                    THEN firstRequest(lastMessageIds, d) ELSE "none"]
    /\ results' = [d \in Dests |-> IF d \in webhookUrls THEN Pending ELSE Unsettled]
    /\ patchCount' = [d \in Dests |->
            IF d \in webhookUrls /\ firstRequest(lastMessageIds, d) = "patch" THEN 1 ELSE 0]
    /\ postCount' = [d \in Dests |->
            IF d \in webhookUrls /\ firstRequest(lastMessageIds, d) = "post" THEN 1 ELSE 0]
    /\ postedId' = [d \in Dests |-> None]
    /\ failedId' = [d \in Dests |-> None]
    /\ delivery' = NoDelivery
    /\ UNCHANGED <<isRunning, activeCycles, skipped, unhandled>>

\* checkServer's test on getConsecutiveErrors().
shouldNotifyEarly(errors) == errors >= ErrorThreshold - 1

\* Every caught error is notified.
shouldNotifyAlways(errors) == TRUE

shouldNotify(errors) == errors >= ErrorThreshold

\* An Error object carries a message string: the rejections of axios.get and
\* the TypeError and RangeError of the renderer all do.
hasMessage(error) == error[1] \in {"fetch", "TypeError", "RangeError"}

\* The error embed cannot be built.
createErrorEmbedRaises(error, errors) ==
    [raised |-> TRUE, consecutiveErrors |-> errors]

\* createErrorEmbed: error.message.substring raises when there is no message.
createErrorEmbed(error, errors) ==
    [raised |-> ~hasMessage(error), consecutiveErrors |-> errors]

\* catch block of checkServer: sendErrorNotification builds the embed before
\* it delivers it, and nothing catches what the catch block raises.
Catch(error, errors) ==
    /\ caught' = error
    /\ IF shouldNotify(errors)
       THEN IF createErrorEmbed(error, errors).raised
            THEN Finally("thrown") /\ UNCHANGED <<destVars, delivery>>
            ELSE StartDelivery("error")
       ELSE Finally("caught") /\ UNCHANGED <<destVars, delivery>>

\* new AlpacaTracker() with the destinations urls configured and
\* message-ids.json holding f.
Construct(urls, f) ==
    /\ webhookUrls = urls
    /\ configPollInterval = ConfigPollInterval
    /\ file = f
    /\ lastMessageIds = loadMessageIds(f)
    /\ issued = OldId
    /\ lastSave = "none"
    /\ isRunning = FALSE
    /\ pc = "idle"
    /\ retryCount = 0
    /\ consecutiveErrors = 0
    /\ caught = NoErr
    /\ payload = "none"
    /\ playerCount = 0
    /\ lastNotificationTime = "null"
    /\ lastPlayerCount = -1
    /\ inflight = [d \in Dests |-> "none"]
    /\ results = [d \in Dests |-> Unsettled]
    /\ getCalls = 0
    /\ sleeps = 0
    /\ patchCount = [d \in Dests |-> 0]
    /\ postCount = [d \in Dests |-> 0]
    /\ activeCycles = 0
    /\ skipped = FALSE
    /\ delivery = NoDelivery
    /\ postedId = [d \in Dests |-> None]
    /\ failedId = [d \in Dests |-> None]
    /\ exhaustedStreak = 0
    /\ unhandled = FALSE

Init ==
    /\ \E urls \in WebhookUrlSets, f \in Files : Construct(urls, f)
    /\ probe = NoProbe

\* A cron tick or the start-up timeout calls checkServer.
CheckServer ==
    IF checkServerSkips(isRunning)
    THEN /\ skipped' = TRUE
         /\ UNCHANGED <<configVars, probe, storeVars, isRunning, pc, fetchVars, caught,
                        payload, playerCount, trackVars, destVars, activeCycles,
                        delivery, exhaustedStreak, unhandled>>
    ELSE /\ isRunning' = TRUE
         /\ activeCycles' = activeCycles + 1
         /\ skipped' = FALSE
         /\ pc' = "get"
         /\ retryCount' = 0
         /\ getCalls' = 1
         /\ sleeps' = 0
         /\ caught' = NoErr
         /\ delivery' = NoDelivery
         /\ UNCHANGED <<configVars, probe, storeVars, consecutiveErrors, payload,
                        playerCount, trackVars, destVars, exhaustedStreak,
                        unhandled>>

\* axios.get resolves: fetchServerInfo returns, processServerData runs up to
\* the await of sendDiscordNotification.
GetOkWith(serverData) ==
    /\ pc = "get"
    /\ LET embed == createServerEmbed(serverData, processServerDataPollInterval)
       IN /\ consecutiveErrors' = errorsAfterSuccess(consecutiveErrors)
          /\ IF embed.raised
             THEN /\ Catch(embed.error, consecutiveErrors')
                  /\ UNCHANGED playerCount
             ELSE /\ StartDelivery("status")
                  /\ playerCount' = embed.playerCount
                  /\ UNCHANGED caught
    /\ exhaustedStreak' = 0
    /\ UNCHANGED <<configVars, probe, storeVars, retryCount, getCalls, sleeps, trackVars>>

\* The endpoint answers with any of the bodies.
GetOk == \E serverData \in ServerDatas : GetOkWith(serverData)

\* axios.get rejects: retry after a sleep, or count the exhaustion and throw.
GetFail ==
    /\ pc = "get"
    /\ errorsAfterFailure(consecutiveErrors, retryCount) <= MaxConsecutive
    /\ consecutiveErrors' = errorsAfterFailure(consecutiveErrors, retryCount)
    /\ IF shouldRetry(retryCount)
       THEN /\ pc' = "sleep"
            /\ sleeps' = sleeps + 1
            /\ UNCHANGED <<isRunning, activeCycles, payload, caught, destVars, delivery,
                           skipped, unhandled>>
       ELSE /\ Catch(thrownError(retryCount), consecutiveErrors')
            /\ UNCHANGED sleeps
    /\ exhaustedStreak' = IF retryCount < maxRetries THEN exhaustedStreak
                          ELSE exhaustedStreak + 1
    /\ UNCHANGED <<configVars, probe, storeVars, retryCount, getCalls, playerCount,
                   trackVars>>

\* sleep(retryDelay) resolves: fetchServerInfo(retryCount + 1) issues the GET.
SleepDone ==
    /\ pc = "sleep"
    /\ pc' = "get"
    /\ retryCount' = retryCount + 1
    /\ getCalls' = callsAfterRetry(getCalls)
    /\ UNCHANGED <<configVars, probe, storeVars, isRunning, consecutiveErrors, caught,
                   payload, playerCount, trackVars, destVars, sleeps, activeCycles,
                   skipped, delivery, exhaustedStreak, unhandled>>

\* A failing write escapes saveMessageIds and ends the attempt as failed.
resultAfterThrowingSave(result, writeOk) ==
    IF writeOk THEN result ELSE [status |-> "fulfilled", value |-> FALSE]

\* What the attempt goes on to, whether or not writeFileSync threw inside
\* saveMessageIds: the catch there only warns.
resultAfterSave(result, writeOk) == result

\* sendToWebhook for d resumes with effect eff; writeOk is the outcome of
\* fs.writeFileSync when the effect saves.
Resume(d, eff, newId, writeOk) ==
    /\ lastMessageIds' = eff.ids
    /\ file' = IF eff.save THEN saveMessageIds(eff.ids, file, writeOk) ELSE file
    /\ issued' = IF newId # None THEN newId ELSE issued
    /\ lastSave' = IF eff.save THEN (IF writeOk THEN "ok" ELSE "failed") ELSE lastSave
    /\ postedId' = [postedId EXCEPT ![d] = newId]
    /\ results' = [results EXCEPT ![d] = IF eff.save
                                         THEN resultAfterSave(eff.result, writeOk)
                                         ELSE eff.result]
    /\ inflight' = [inflight EXCEPT ![d] = IF eff.post THEN "post" ELSE "none"]
    /\ postCount' = [postCount EXCEPT ![d] = IF eff.post THEN @ + 1 ELSE @]
    /\ UNCHANGED <<configVars, probe, isRunning, pc, fetchVars, caught, payload,
                   playerCount, trackVars, patchCount, activeCycles, skipped,
                   delivery, exhaustedStreak, unhandled>>

PatchOk(d) ==
    /\ pc = "deliver" /\ inflight[d] = "patch"
    /\ Resume(d, onPatchOk(lastMessageIds, d), None, TRUE)
    /\ UNCHANGED failedId

PatchFail(d) ==
    /\ pc = "deliver" /\ inflight[d] = "patch"
    /\ \E writeOk \in BOOLEAN :
         Resume(d, onPatchFail(lastMessageIds, d), None, writeOk)
    /\ failedId' = [failedId EXCEPT ![d] = lastMessageIds[d]]

\* The POST answers 2xx, with a fresh message id or without one.
PostOk(d) ==
    /\ pc = "deliver" /\ inflight[d] = "post"
    /\ \/ /\ issued < MaxId
          /\ \E writeOk \in BOOLEAN :
               Resume(d, onPostOk(lastMessageIds, d, issued + 1), issued + 1, writeOk)
       \/ Resume(d, onPostOk(lastMessageIds, d, None), None, TRUE)
    /\ UNCHANGED failedId

PostFail(d) ==
    /\ pc = "deliver" /\ inflight[d] = "post"
    /\ Resume(d, onPostFail(lastMessageIds, d), None, TRUE)
    /\ UNCHANGED failedId

\* Promise.allSettled resolves: sendDiscordNotification returns and the caller
\* (processServerData or sendErrorNotification) runs to the end of checkServer.
AllSettled ==
    /\ pc = "deliver"
    /\ allSettled(results, webhookUrls)
    /\ LET r == sendDiscordNotificationResult(results, webhookUrls)
       IN /\ delivery' = r
          /\ IF payload = "status"
             THEN /\ lastNotificationTime' = IF r.ok THEN "now" ELSE lastNotificationTime
                  /\ lastPlayerCount' = playerCount
             ELSE UNCHANGED trackVars
    /\ Finally("returned")
    /\ inflight' = [d \in Dests |-> "none"]
    /\ results' = [d \in Dests |-> Unsettled]
    /\ patchCount' = [d \in Dests |-> 0]
    /\ postCount' = [d \in Dests |-> 0]
    /\ postedId' = [d \in Dests |-> None]
    /\ failedId' = [d \in Dests |-> None]
    /\ UNCHANGED <<configVars, probe, storeVars, fetchVars, caught, playerCount,
                   exhaustedStreak>>

Next ==
    \/ CheckServer
    \/ GetOk
    \/ GetFail
    \/ SleepDone
    \/ \E d \in Dests : PatchOk(d)
    \/ \E d \in Dests : PatchFail(d)
    \/ \E d \in Dests : PostOk(d)
    \/ \E d \in Dests : PostFail(d)
    \/ AllSettled

Spec == Init /\ [][Next]_vars

\* Every HTTP call and every sleep eventually completes.
LiveSpec ==
    /\ Spec
    /\ WF_vars(GetOk \/ GetFail)
    /\ WF_vars(SleepDone)
    /\ \A d \in Dests : WF_vars(PatchOk(d) \/ PatchFail(d))
    /\ \A d \in Dests : WF_vars(PostOk(d) \/ PostFail(d))
    /\ WF_vars(AllSettled)

\* ------------------------------------------- MessageStorage on its own
\* Here the Map is the sequence of its entries <<key, value>> in insertion
\* order, keys and values are strings given as their characters, and the
\* content of message-ids.json is the sequence of JSON tokens written to it.
StoreKeys == {<<"1", "0">>, <<"2">>, <<"d", "1">>}
StoreValues == {<<"x">>, <<"y">>}
StoreMaps ==
    {m \in UNION {[1..n -> StoreKeys \X StoreValues] : n \in 0..MaxEntries} :
        \A i, j \in DOMAIN m : m[i][1] = m[j][1] => i = j}

Str(s) == [t |-> "string", s |-> s]
Punct(c) == [t |-> "punct", s |-> <<c>>]
NoDisk == [kind |-> "missing", text |-> <<>>]
\* message-ids.json before the save: absent, {"d1": "x"}, or a truncated text.
StoreDisks ==
    {NoDisk,
     [kind |-> "text", text |-> <<Punct("{"), Str(<<"d", "1">>), Punct(":"),
                                   Str(<<"x">>), Punct("}")>>],
     [kind |-> "text", text |-> <<Punct("{")>>]}

\* An own property key that is a canonical array index.
IsArrayIndex(k) ==
    /\ k # <<>>
    /\ \A i \in DOMAIN k : k[i] \in DigitChars
    /\ Len(k) = 1 \/ k[1] # "0"

RECURSIVE InsertByIndex(_, _)
InsertByIndex(e, s) ==
    IF s = <<>> THEN <<e>>
    ELSE IF ParseDigits(e[1], 0) < ParseDigits(Head(s)[1], 0) THEN <<e>> \o s
    ELSE <<Head(s)>> \o InsertByIndex(e, Tail(s))

RECURSIVE SortByIndex(_)
SortByIndex(s) ==
    IF s = <<>> THEN <<>> ELSE InsertByIndex(Head(s), SortByIndex(Tail(s)))

\* Own properties of an object in enumeration order: array indices
\* ascending, then the other keys in creation order.
OrderProperties(entries) ==
    SortByIndex(SelectSeq(entries, LAMBDA e : IsArrayIndex(e[1])))
    \o SelectSeq(entries, LAMBDA e : ~IsArrayIndex(e[1]))

objectFromEntries(entries) == OrderProperties(entries)

RECURSIVE Members(_)
Members(obj) ==
    IF obj = <<>> THEN <<>>
    ELSE <<Str(Head(obj)[1]), Punct(":"), Str(Head(obj)[2])>>
         \o (IF Tail(obj) = <<>> THEN <<>> ELSE <<Punct(",")>>)
         \o Members(Tail(obj))

jsonStringify(obj) == <<Punct("{")>> \o Members(obj) \o <<Punct("}")>>

ParseError == [ok |-> FALSE, obj |-> <<>>]

RECURSIVE ParseMembers(_, _)
ParseMembers(toks, acc) ==
    IF toks = <<>> THEN [ok |-> TRUE, obj |-> OrderProperties(acc)]
    ELSE IF Len(toks) >= 3 /\ toks[1].t = "string" /\ toks[2] = Punct(":")
                           /\ toks[3].t = "string"
         THEN LET acc2 == Append(acc, <<toks[1].s, toks[3].s>>)
              IN IF Len(toks) = 3 THEN ParseMembers(<<>>, acc2)
                 ELSE IF Len(toks) > 4 /\ toks[4] = Punct(",")
                      THEN ParseMembers(SubSeq(toks, 5, Len(toks)), acc2)
                      ELSE ParseError
         ELSE ParseError

jsonParse(text) ==
    IF Len(text) >= 2 /\ text[1] = Punct("{") /\ text[Len(text)] = Punct("}")
    THEN ParseMembers(SubSeq(text, 2, Len(text) - 1), <<>>)
    ELSE ParseError

\* saveMessageIds on the entry sequence.
storeSave(entries, disk, writeOk) ==
    IF writeOk THEN [kind |-> "text", text |-> jsonStringify(objectFromEntries(entries))]
    ELSE disk

storeLoadDropsLast(disk) ==
    IF disk.kind = "missing" \/ ~jsonParse(disk.text).ok THEN <<>>
    ELSE SubSeq(jsonParse(disk.text).obj, 1, Len(jsonParse(disk.text).obj) - 1)

\* loadMessageIds into the empty Map of a new MessageStorage.
storeLoad(disk) ==
    IF disk.kind = "missing" THEN <<>>
    ELSE LET parsed == jsonParse(disk.text)
         IN IF parsed.ok THEN parsed.obj ELSE <<>>

\* The mapping a Map holds, whatever its insertion order.
Mapping(entries) == {entries[i] : i \in DOMAIN entries}

StoreInit ==
    /\ Construct({}, [kind |-> "missing", map |-> EmptyMap])
    /\ \E m \in StoreMaps, disk \in StoreDisks :
         probe = [op |-> "store", stage |-> "set", map |-> m, before |-> disk,
                  disk |-> disk, wrote |-> FALSE, loaded |-> <<>>]

StoreSave ==
    /\ probe.stage = "set"
    /\ \E writeOk \in BOOLEAN :
         probe' = [probe EXCEPT !.stage = "saved", !.wrote = writeOk,
                                !.disk = storeSave(probe.map, probe.disk, writeOk)]
    /\ UNCHANGED trackerVars

StoreLoad ==
    /\ probe.stage = "saved"
    /\ probe' = [probe EXCEPT !.stage = "loaded", !.loaded = storeLoad(probe.disk)]
    /\ UNCHANGED trackerVars

StoreNext == StoreSave \/ StoreLoad

StoreSpec == StoreInit /\ [][StoreNext]_vars

\* -------------------------------------------- IEEE 754 double arithmetic
\* A positive double is [bits, exp]: the value 0.b1 b2 ... b53 * 2^exp with
\* b1 = 1 (bits is the 53-bit significand, most significant bit first).
\* Zero is [bits |-> <<>>, exp |-> 0].
RECURSIVE Pow2(_)
Pow2(n) == IF n = 0 THEN 1 ELSE 2 * Pow2(n - 1)

\* Least e >= 0 with num < den * 2^e.
RECURSIVE ExpAbove(_, _, _)
ExpAbove(num, den, e) == IF num < den * Pow2(e) THEN e ELSE ExpAbove(num, den, e + 1)

\* Greatest k >= 0 with num * 2^k < den, for num < den.
RECURSIVE ShiftBelow(_, _, _)
ShiftBelow(num, den, k) ==
    IF num * Pow2(k + 1) < den THEN ShiftBelow(num, den, k + 1) ELSE k

\* The first n bits of the binary expansion of r / den (r < den), followed
\* by a sticky bit: 1 when the expansion goes on with a non-zero digit.
RECURSIVE QuotientBits(_, _, _)
QuotientBits(r, den, n) ==
    IF n = 0 THEN <<IF r = 0 THEN 0 ELSE 1>>
    ELSE IF 2 * r >= den THEN <<1>> \o QuotientBits(2 * r - den, den, n - 1)
    ELSE <<0>> \o QuotientBits(2 * r, den, n - 1)

\* bits + 1 in the last place; a carry out of the first place gives a
\* leading 1 and one more bit.
RECURSIVE IncrementAt(_, _)
IncrementAt(bits, i) ==
    IF i = 0 THEN <<1>> \o bits
    ELSE IF bits[i] = 0 THEN [bits EXCEPT ![i] = 1]
    ELSE IncrementAt([bits EXCEPT ![i] = 0], i - 1)

Increment(bits) == IncrementAt(bits, Len(bits))

\* Round-to-nearest-even of 0.bits * 2^exp (Len(bits) > MantissaBits, first
\* bit 1) to a double.
RoundToDouble(bits, exp) ==
    LET kept == SubSeq(bits, 1, MantissaBits)
        roundBit == bits[MantissaBits + 1]
        sticky == \E i \in (MantissaBits + 2)..Len(bits) : bits[i] = 1
        up == roundBit = 1 /\ (sticky \/ kept[MantissaBits] = 1)
        inc == Increment(kept)
    IN IF ~up THEN [bits |-> kept, exp |-> exp]
       ELSE IF Len(inc) > MantissaBits
            THEN [bits |-> SubSeq(inc, 1, MantissaBits), exp |-> exp + 1]
            ELSE [bits |-> inc, exp |-> exp]

\* The double a / b for integers a >= 0, b > 0.
DoubleDiv(a, b) ==
    IF a = 0 THEN [bits |-> <<>>, exp |-> 0]
    ELSE IF a >= b
         THEN LET e == ExpAbove(a, b, 1)
              IN RoundToDouble(QuotientBits(a, b * Pow2(e), MantissaBits + 1), e)
         ELSE LET k == ShiftBelow(a, b, 0)
              IN RoundToDouble(QuotientBits(a * Pow2(k), b, MantissaBits + 1), -k)

\* Binary digits of n > 0, most significant first.
RECURSIVE Binary(_)
Binary(n) == IF n = 0 THEN <<>> ELSE Binary(n \div 2) \o <<n % 2>>

\* bits * c as a bit sequence, for an integer c > 0: schoolbook
\* multiplication from the last bit with carry.
RECURSIVE TimesCarry(_, _, _, _)
TimesCarry(bits, i, c, carry) ==
    IF i = 0 THEN Binary(carry)
    ELSE LET t == bits[i] * c + carry
         IN IF t % 2 = 0 THEN TimesCarry(bits, i - 1, c, t \div 2) \o <<0>>
            ELSE TimesCarry(bits, i - 1, c, t \div 2) \o <<1>>

\* The double x * c for a double x and an integer c >= 2.
DoubleTimes(x, c) ==
    IF x.bits = <<>> THEN x
    ELSE LET product == TimesCarry(x.bits, Len(x.bits), c, 0)
         IN RoundToDouble(product, x.exp + Len(product) - MantissaBits)

RECURSIVE BitsValue(_, _)
BitsValue(bits, i) == IF i = 0 THEN 0 ELSE 2 * BitsValue(bits, i - 1) + bits[i]

mathRoundDown(x) ==
    IF x.bits = <<>> \/ x.exp < 0 THEN 0
    ELSE BitsValue(x.bits, IF x.exp < MantissaBits THEN x.exp ELSE MantissaBits)

\* Math.round of a non-negative double: the nearest integer, halves upwards.
mathRound(x) ==
    IF x.bits = <<>> \/ x.exp < 0 THEN 0
    ELSE BitsValue(x.bits, IF x.exp < MantissaBits THEN x.exp ELSE MantissaBits)
         + (IF x.exp < MantissaBits THEN x.bits[x.exp + 1] ELSE 0)

\* ------------------------------------------------ EmbedBuilder on its own
maxPlayersOf(serverData) ==
    IF serverData.maxClients = 0 THEN DefaultMaxClients ELSE serverData.maxClients

\* Math.round((playerCount / maxPlayers) * 100)
capacityPercent(serverData) ==
    mathRound(DoubleTimes(DoubleDiv(serverData.numHumans, maxPlayersOf(serverData)), 100))

\* Math.round((playerCount / maxPlayers) * progressBarLength)
filledBars(serverData) ==
    mathRound(DoubleTimes(DoubleDiv(serverData.numHumans, maxPlayersOf(serverData)),
                          progressBarLength))

\* String.prototype.repeat for a count >= 0 (a negative count throws).
repeat(c, n) == [i \in 1..n |-> c]

\* What createServerEmbed computes up to the embed's first two fields: the
\* percentage, the progress bar, and whether it threw (repeat with a
\* negative count, or getNextRefreshTimestamp without a pollInterval).
createServerEmbedFields(serverData, pollInterval) ==
    LET filled == filledBars(serverData)
        thrown == filled > progressBarLength \/ pollInterval = Undefined
    IN [raised |-> thrown,
        capacityPercent |-> capacityPercent(serverData),
        progressBar |-> IF filled > progressBarLength THEN <<>>
                        ELSE repeat("filled", filled)
                             \o repeat("empty", progressBarLength - filled)]

\* Server states rendered on their own (an absent field is 0).
RenderDatas == [numHumans : 0..MaxHumans, maxClients : {0, 1, 32, 40}]

\* humanData entries: name, score || 0 and time || 0.
Players ==
    {[name |-> <<"a">>, score |-> 0, time |-> 10],
     [name |-> <<"b">>, score |-> 0, time |-> 20],
     [name |-> <<"c">>, score |-> 5, time |-> 3],
     [name |-> <<"d">>, score |-> 5, time |-> 1],
     [name |-> <<" ">>, score |-> 9, time |-> 9]}
HumanDatas ==
    {h \in UNION {[1..n -> Players] : n \in 0..MaxPlayers} :
        \A i, j \in DOMAIN h : h[i] = h[j] => i = j}

\* String.prototype.trim on a string given as its characters.
Whitespace == {" ", "\t"}

RECURSIVE trimStart(_)
trimStart(s) == IF s # <<>> /\ Head(s) \in Whitespace THEN trimStart(Tail(s)) ELSE s

RECURSIVE trimEnd(_)
trimEnd(s) ==
    IF s # <<>> /\ s[Len(s)] \in Whitespace THEN trimEnd(SubSeq(s, 1, Len(s) - 1)) ELSE s

trim(s) == trimEnd(trimStart(s))

\* Only an empty name is left out.
namedUntrimmed(p) == "name" \in DOMAIN p /\ p.name # <<>>

\* p.name?.trim() is truthy: there is a name and it does not trim to ''.
named(p) == "name" \in DOMAIN p /\ trim(p.name) # <<>>

compareTimeAscending(a, b) ==
    IF b.score # a.score THEN b.score - a.score ELSE a.time - b.time

\* The comparator handed to sort.
compare(a, b) ==
    IF b.score # a.score THEN b.score - a.score
    ELSE IF a.score = 0 /\ b.score = 0 THEN b.time - a.time
    ELSE a.time - b.time

\* Array.prototype.sort is stable: x goes behind every element that does
\* not compare greater than it.
RECURSIVE insertSorted(_, _)
insertSorted(s, x) ==
    IF s = <<>> THEN <<x>>
    ELSE IF compare(Head(s), x) <= 0 THEN <<Head(s)>> \o insertSorted(Tail(s), x)
    ELSE <<x>> \o s

RECURSIVE sortFrom(_, _)
sortFrom(s, acc) == IF s = <<>> THEN acc ELSE sortFrom(Tail(s), insertSorted(acc, Head(s)))

sortedPlayers(humanData) == sortFrom(SelectSeq(humanData, named), <<>>)

\* Arguments of formatTime: a number of seconds, or none.
FormatInputs ==
    {[present |-> FALSE, value |-> 0]}
    \cup [present : {TRUE}, value : (0..MaxSeconds) \cup {3599, 3600, 3661, 7200}]

minutesOfTotal(seconds) == seconds \div 60

minutesOf(seconds) == (seconds % 3600) \div 60

\* The parts formatTime joins with ' ', each a number and its unit.
formatTime(seconds) ==
    IF ~seconds.present \/ seconds.value = 0 THEN <<[n |-> 0, unit |-> "s"]>>
    ELSE LET hours == seconds.value \div 3600
             minutes == minutesOf(seconds.value)
             remainingSeconds == seconds.value % 60
             hm == (IF hours > 0 THEN <<[n |-> hours, unit |-> "h"]>> ELSE <<>>)
                   \o (IF minutes > 0 THEN <<[n |-> minutes, unit |-> "m"]>> ELSE <<>>)
         IN IF remainingSeconds > 0 \/ Len(hm) = 0
            THEN Append(hm, [n |-> remainingSeconds, unit |-> "s"])
            ELSE hm

\* humanData entries for the table: names with and without surrounding
\* whitespace, of whitespace only, empty and absent.
TablePlayers ==
    {[name |-> <<"a">>, score |-> 3, time |-> 61],
     [name |-> <<" ", "b", " ">>, score |-> 0, time |-> 5],
     [name |-> <<" ">>, score |-> 7, time |-> 9],
     [name |-> <<"\t", " ">>, score |-> 0, time |-> 0],
     [name |-> <<>>, score |-> 1, time |-> 2],
     [score |-> 2, time |-> 3600]}

\* Server states with and without a humanData array.
TableDatas ==
    {[numHumans |-> 0]}
    \cup [numHumans : {0},
          humanData : {h \in UNION {[1..n -> TablePlayers] : n \in 0..MaxPlayers} :
                          \A i, j \in DOMAIN h : h[i] = h[j] => i = j}]

\* serverData.humanData?.filter?.(p => p.name?.trim()) || []
playersOf(serverData) ==
    IF "humanData" \in DOMAIN serverData THEN SelectSeq(serverData.humanData, named)
    ELSE <<>>

\* The fields createServerEmbed pushes behind the two it starts with: a
\* column is the sequence of the values joined with '\n'.
playerTable(serverData) ==
    LET players == playersOf(serverData)
    IN IF Len(players) > 0
       THEN LET sorted == sortFrom(players, <<>>)
            IN <<[name |-> "Name",
                  value |-> [i \in DOMAIN sorted |-> sorted[i].name]],
                 [name |-> "Score",
                  value |-> [i \in DOMAIN sorted |-> sorted[i].score]],
                 [name |-> "Time Played",
                  value |-> [i \in DOMAIN sorted |->
                      formatTime([present |-> TRUE, value |-> sorted[i].time])]]>>
       ELSE <<>>

EmbedInit ==
    /\ Construct({}, [kind |-> "missing", map |-> EmptyMap])
    /\ \/ \E serverData \in RenderDatas, pollInterval \in {Undefined, ConfigPollInterval} :
             probe = [op |-> "render", stage |-> "data", serverData |-> serverData,
                      pollInterval |-> pollInterval,
                      embed |-> [raised |-> FALSE, capacityPercent |-> 0,
                                 progressBar |-> <<>>]]
       \/ \E humanData \in HumanDatas :
             probe = [op |-> "sort", stage |-> "data", humanData |-> humanData,
                      sorted |-> <<>>]
       \/ \E seconds \in FormatInputs :
             probe = [op |-> "format", stage |-> "data", seconds |-> seconds,
                      text |-> <<>>]
       \/ \E serverData \in TableDatas :
             probe = [op |-> "table", stage |-> "data", serverData |-> serverData,
                      fields |-> <<>>]

\* createServerEmbed builds the player table.
SortPlayers ==
    /\ probe.op = "sort" /\ probe.stage = "data"
    /\ probe' = [probe EXCEPT !.stage = "table", !.sorted = sortedPlayers(probe.humanData)]
    /\ UNCHANGED trackerVars

FormatTime ==
    /\ probe.op = "format" /\ probe.stage = "data"
    /\ probe' = [probe EXCEPT !.stage = "text", !.text = formatTime(probe.seconds)]
    /\ UNCHANGED trackerVars

Render ==
    /\ probe.op = "render" /\ probe.stage = "data"
    /\ probe' = [probe EXCEPT !.stage = "embed",
                               !.embed = createServerEmbedFields(probe.serverData,
                                                                 probe.pollInterval)]
    /\ UNCHANGED trackerVars

\* createServerEmbed pushes the table sections, or none.
PlayerTable ==
    /\ probe.op = "table" /\ probe.stage = "data"
    /\ probe' = [probe EXCEPT !.stage = "fields", !.fields = playerTable(probe.serverData)]
    /\ UNCHANGED trackerVars

EmbedNext == Render \/ SortPlayers \/ FormatTime \/ PlayerTable

EmbedSpec == EmbedInit /\ [][EmbedNext]_vars

\* ---------------------------------------- WebhookClient.maskWebhookUrl
\* A URL is given by whether new URL() accepts it and by its path segments;
\* strings are sequences of characters.
Segments == {<<"a">>, <<"t", "o", "k", "e", "n">>}
WebhookPaths == UNION {[1..n -> Segments] : n \in 0..MaxSegments}

\* urlObj.pathname: "/" followed by the segments joined with "/".
RECURSIVE join(_)
join(parts) ==
    IF parts = <<>> THEN <<>>
    ELSE IF Len(parts) = 1 THEN Head(parts)
    ELSE Head(parts) \o <<"/">> \o join(Tail(parts))

pathnameOf(segs) == <<"/">> \o join(segs)

RECURSIVE split(_, _)
split(s, cur) ==
    IF s = <<>> THEN <<cur>>
    ELSE IF Head(s) = "/" THEN <<cur>> \o split(Tail(s), <<>>)
    ELSE split(Tail(s), Append(cur, Head(s)))

substring(s, from, to) == SubSeq(s, from + 1, IF to < Len(s) THEN to ELSE Len(s))

\* parts[i] = v of a JavaScript array, indices from 0; an index equal to the
\* length appends.
setIndex(parts, i, v) ==
    IF i < Len(parts) THEN [parts EXCEPT ![i + 1] = v] ELSE Append(parts, v)

InvalidWebhookUrl == [invalid |-> TRUE, pathname |-> <<>>]

maskWebhookUrl(valid, pathname) ==
    IF ~valid THEN InvalidWebhookUrl
    ELSE LET parts == split(pathname, <<>>)
         IN IF Len(parts) >= 5
            THEN LET p4 == setIndex(parts, 4, substring(parts[5], 0, 4) \o <<"*", "*", "*">>)
                     p5 == setIndex(p4, 5, <<"*", "*", "*">>)
                 IN [invalid |-> FALSE, pathname |-> join(p5)]
            ELSE [invalid |-> FALSE, pathname |-> pathname]

MaskInit ==
    /\ Construct({}, [kind |-> "missing", map |-> EmptyMap])
    /\ \E valid \in BOOLEAN, segs \in WebhookPaths :
         probe = [op |-> "mask", stage |-> "url", valid |-> valid, segs |-> segs,
                  pathname |-> pathnameOf(segs), logged |-> InvalidWebhookUrl]

\* A log line is written for the destination.
MaskUrl ==
    /\ probe.stage = "url"
    /\ probe' = [probe EXCEPT !.stage = "logged",
                               !.logged = maskWebhookUrl(probe.valid, probe.pathname)]
    /\ UNCHANGED trackerVars

MaskNext == MaskUrl

MaskSpec == MaskInit /\ [][MaskNext]_vars

\* ------------------------------------------------------------------ claims
\* C1: when the PATCH of a destination's recorded message succeeds, that
\* destination's delivery reports success, issues no POST, and leaves the
\* mapping unchanged in memory and in the file.
C1_UpdateSuccess ==
    [][\A d \in Dests : PatchOk(d) =>
          /\ lastMessageIds[d] # None
          /\ results'[d] = Fulfilled(TRUE)
          /\ inflight'[d] = "none"
          /\ postCount'[d] = 0
          /\ lastMessageIds' = lastMessageIds
          /\ file' = file]_vars

C1_Witness ==
    \E d \in webhookUrls :
        /\ pc = "deliver"
        /\ patchCount[d] = 1 /\ postCount[d] = 0
        /\ results[d] = Fulfilled(TRUE)
        /\ lastMessageIds[d] # None

\* C2 as stated: once every attempt has settled, a destination whose PATCH
\* failed and whose POST returned id n has entry n in memory and in the file,
\* and reported success.
C2_Original ==
    \A d \in Dests :
        (pc = "deliver" /\ allSettled(results, webhookUrls)
            /\ failedId[d] # None /\ postedId[d] # None) =>
            /\ lastMessageIds[d] = postedId[d]
            /\ file.kind = "json" /\ file.map[d] = postedId[d]
            /\ results[d] = Fulfilled(TRUE)

\* After a failed PATCH and a POST that returned id n, the entry is n in
\* memory and the destination reported success.
C2_InMemory ==
    \A d \in Dests :
        (pc = "deliver" /\ failedId[d] # None /\ postedId[d] # None) =>
            /\ lastMessageIds[d] = postedId[d]
            /\ postedId[d] # failedId[d]
            /\ results[d] = Fulfilled(TRUE)

\* C2 amended: after a failed PATCH and a POST that returned id n the entry
\* is n in memory and the destination reported success; the step that
\* installs n either rewrites the file as the whole in-memory mapping (n
\* included) or, when writeFileSync fails, leaves the file as it was.
C2_Amended ==
    /\ []C2_InMemory
    /\ [][\A d \in Dests : (PostOk(d) /\ postedId'[d] # None) =>
            \/ file' = [kind |-> "json", map |-> lastMessageIds']
            \/ file' = file]_vars

C2_Witness ==
    \E d \in webhookUrls :
        /\ pc = "deliver"
        /\ failedId[d] = OldId /\ postedId[d] # None
        /\ lastMessageIds[d] = postedId[d]
        /\ file.kind = "json" /\ file.map[d] = postedId[d]

\* During a delivery: the in-memory entry of d differs from the id whose PATCH
\* failed, is absent when the fallback POST failed too, and is present while
\* a PATCH is in flight.
C3_State ==
    \A d \in Dests :
        /\ failedId[d] # None => lastMessageIds[d] # failedId[d]
        /\ (failedId[d] # None /\ results[d] = Fulfilled(FALSE)) =>
               lastMessageIds[d] = None
        /\ inflight[d] = "patch" => lastMessageIds[d] # None

\* Entries change only during a delivery, by eviction or by installing an id
\* never handed out before; a delivery starts with a POST and no PATCH for
\* every destination without entry.
C3_Step ==
    /\ \A d \in Dests :
         lastMessageIds'[d] # lastMessageIds[d] =>
             /\ pc = "deliver"
             /\ lastMessageIds'[d] = None \/ lastMessageIds'[d] > issued
    /\ (pc # "deliver" /\ pc' = "deliver") =>
         \A d \in webhookUrls :
             lastMessageIds[d] = None =>
                 /\ inflight'[d] = "post"
                 /\ patchCount'[d] = 0 /\ postCount'[d] = 1

\* C3: once a PATCH against d has failed the mapping no longer holds the
\* failed id, in that delivery and ever after; when the fallback POST fails
\* too d has no entry, and the next delivery to d posts without any PATCH.
C3_Eviction == []C3_State /\ [][C3_Step]_vars

\* A later delivery posts to d without a PATCH: d's entry was evicted by an
\* earlier failed PATCH whose file write failed (the file still shows it).
C3_Witness ==
    \E d \in webhookUrls :
        /\ pc = "deliver"
        /\ patchCount[d] = 0 /\ postCount[d] = 1
        /\ lastMessageIds[d] = None
        /\ file.kind = "json" /\ file.map[d] = OldId

\* C4: sendDiscordNotification reports success iff at least one destination
\* reported success; successCount and total count the destinations.
C4_Aggregate ==
    [][AllSettled =>
          LET succeeded == {d \in webhookUrls : results[d] = Fulfilled(TRUE)}
          IN /\ delivery'.done
             /\ delivery'.ok <=> succeeded # {}
             /\ delivery'.successCount = Cardinality(succeeded)
             /\ delivery'.total = Cardinality(webhookUrls)]_vars

C4_Witness ==
    delivery = [done |-> TRUE, successCount |-> 1, total |-> 3, ok |-> TRUE]

\* During a delivery every configured destination has one attempt, pending
\* exactly while one of its requests is in flight; no other destination has.
C5_State ==
    pc = "deliver" =>
        \A d \in Dests :
            IF d \in webhookUrls
            THEN /\ results[d].status \in {"pending", "fulfilled"}
                 /\ patchCount[d] + postCount[d] >= 1
                 /\ results[d].status = "pending" <=> inflight[d] \in {"patch", "post"}
            ELSE /\ results[d] = Unsettled /\ inflight[d] = "none"
                 /\ patchCount[d] + postCount[d] = 0

\* A response for one destination leaves the other attempts and entries
\* alone; the aggregate is taken when every attempt has settled.
C5_Step ==
    /\ \A d \in Dests :
         (PatchOk(d) \/ PatchFail(d) \/ PostOk(d) \/ PostFail(d)) =>
             \A e \in Dests \ {d} :
                 /\ inflight'[e] = inflight[e]
                 /\ results'[e] = results[e]
                 /\ lastMessageIds'[e] = lastMessageIds[e]
    /\ AllSettled =>
         \A d \in webhookUrls :
             results[d].status = "fulfilled" /\ inflight[d] = "none"

\* C5: in every delivery each configured destination gets exactly one
\* attempt, unaffected by the outcomes and the order of the other
\* destinations' responses, and the aggregate is computed only after all
\* attempts have settled.
C5_FanOut == []C5_State /\ [][C5_Step]_vars

C5_Witness ==
    /\ pc = "deliver"
    /\ results["d1"] = Fulfilled(FALSE)
    /\ results["d2"] = Fulfilled(TRUE)
    /\ results["d3"].status = "pending" /\ inflight["d3"] = "post"
    /\ patchCount["d3"] = 1

\* C6: a failed POST makes sendToWebhook return false; no attempt ever
\* rejects, and the cycle goes on awaiting the delivery.
C6_NoRaise ==
    /\ [](\A d \in Dests : results[d].status # "rejected")
    /\ [][\A d \in Dests : PostFail(d) =>
            /\ results'[d] = Fulfilled(FALSE)
            /\ pc' = "deliver" /\ isRunning'
            /\ caught' = caught]_vars

C6_Witness ==
    \E d \in webhookUrls :
        /\ pc = "deliver"
        /\ patchCount[d] = 1 /\ postCount[d] = 1
        /\ results[d] = Fulfilled(FALSE)

\* C7: a fetch whose attempts all fail has called the endpoint
\* maxRetries + 1 times and throws the error of the last attempt.
C7_RetryCount ==
    /\ getCalls <= maxRetries + 1
    /\ caught[1] = "fetch" =>
           /\ getCalls = maxRetries + 1
           /\ sleeps = maxRetries
           /\ caught = FetchErr(maxRetries)

C7_Witness == caught = FetchErr(3) /\ getCalls = 4 /\ pc = "idle"

\* C8: consecutiveErrors equals the number of fetch calls that exhausted
\* their retries since the last GET that resolved.
C8_ConsecutiveErrors == consecutiveErrors = exhaustedStreak

C8_Witness ==
    /\ exhaustedStreak = 2 /\ consecutiveErrors = 2
    /\ pc = "sleep" /\ retryCount = 2

\* C9: at most one cycle is Running, and checkServer called while a cycle is
\* Running changes nothing but the skip log.
C9_SingleFlight ==
    /\ [](activeCycles <= 1 /\ (isRunning <=> activeCycles = 1)
            /\ (isRunning <=> pc # "idle"))
    /\ [][(isRunning /\ CheckServer) =>
            UNCHANGED <<configVars, probe, storeVars, isRunning, pc, fetchVars, caught,
                        payload, playerCount, trackVars, destVars, activeCycles,
                        delivery, exhaustedStreak, unhandled>>]_vars

C9_Witness == skipped /\ pc = "sleep" /\ isRunning

\* C10: under LiveSpec every Running cycle returns to Idle.
C10_ReturnsToIdle == isRunning ~> ~isRunning

C10_Witness == ~isRunning /\ pc = "idle" /\ delivery.done /\ ~delivery.ok

\* C11: a cycle whose fetch succeeded has rendered the status payload and
\* handed it to sendDiscordNotification: when the cycle is over, nothing was
\* caught and the delivery has returned.
C11_StatusDelivered ==
    (pc = "idle" /\ getCalls >= 1 /\ caught[1] # "fetch") =>
        (caught = NoErr /\ delivery.done)

\* C12: the fetch call that exhausts its retries is followed by the delivery
\* of an error payload exactly when consecutiveErrors, after the increment,
\* is 3 or more; otherwise the cycle ends without a delivery.  An error
\* payload is only ever in delivery after such a fetch.
C12_Step ==
    (GetFail /\ ~shouldRetry(retryCount)) =>
        /\ (pc' = "deliver" /\ payload' = "error") <=> consecutiveErrors' >= 3
        /\ consecutiveErrors' < 3 => (pc' = "idle" /\ delivery' = delivery)

C14_Original ==
    lastSave # "none" => file = [kind |-> "json", map |-> lastMessageIds]

\* C14 (amended): the file holds exactly the in-memory mapping after every
\* mutation whose write succeeded; every mutation of the mapping calls
\* saveMessageIds, and a write that fails leaves the file as it was.
C14_Amended ==
    /\ [](lastSave = "ok" => file = [kind |-> "json", map |-> lastMessageIds])
    /\ [][lastMessageIds' # lastMessageIds =>
            /\ lastSave' \in {"ok", "failed"}
            /\ lastSave' = "failed" => file' = file]_vars

C14_Witness ==
    \E d \in webhookUrls :
        /\ lastSave = "ok"
        /\ failedId[d] = OldId /\ postedId[d] = None
        /\ lastMessageIds[d] = None
        /\ file = [kind |-> "json", map |-> lastMessageIds]

\* C15: loadMessageIds leaves the Map empty unless message-ids.json holds a
\* JSON object: until the first save, a file that is missing, unparseable or
\* not a key-value object goes with an empty in-memory mapping.
C15_LoadFallsBack ==
    (lastSave = "none" /\ file.kind # "json") => lastMessageIds = EmptyMap

\* C17: within one sendDiscordNotification call a destination is sent at
\* most one PATCH and at most one POST, and once its sendToWebhook has
\* settled (a failed POST included) no further request goes to it before the
\* delivery returns.
C17_Step ==
    \A d \in Dests :
        (results[d].status = "fulfilled" /\ pc' = "deliver") =>
            /\ patchCount'[d] = patchCount[d]
            /\ postCount'[d] = postCount[d]
            /\ inflight'[d] = "none"
            /\ results'[d] = results[d]

C17_NoRetry ==
    /\ [](\A d \in Dests :
            /\ patchCount[d] <= 1 /\ postCount[d] <= 1
            /\ results[d].status = "fulfilled" => inflight[d] = "none")
    /\ [][C17_Step]_vars

C17_Witness ==
    \E d, e \in webhookUrls :
        /\ pc = "deliver"
        /\ failedId[d] = OldId /\ patchCount[d] = 1 /\ postCount[d] = 1
        /\ results[d] = Fulfilled(FALSE) /\ inflight[d] = "none"
        /\ results[e].status = "pending" /\ inflight[e] = "post"

\* C19: no cycle runs with an empty destination list: a program configured
\* with zero destinations has exited at start-up and never enters checkServer.
C19_NoCycleWithoutDestinations == isRunning => webhookUrls # {}

\* C18: the interval getNextRefreshTimestamp derives from the configured
\* schedule is the interval at which that schedule fires checkServer.
C18_SameInterval ==
    intervalMinutes(configPollInterval) * 60 = cronPeriodSeconds(configPollInterval)

\* C16: a Map saved by one MessageStorage and loaded by a new one is the
\* same mapping.
C16_Original ==
    probe.op = "store" /\ probe.stage = "loaded" =>
        Mapping(probe.loaded) = Mapping(probe.map)

\* C16 (amended): the loaded mapping is the saved one when the write
\* succeeded; when it failed the file is as before the save and the load
\* yields what that file held.
C16_Amended ==
    probe.op = "store" /\ probe.stage = "loaded" =>
        /\ probe.wrote => /\ Mapping(probe.loaded) = Mapping(probe.map)
                          /\ Len(probe.loaded) = Len(probe.map)
        /\ ~probe.wrote => /\ probe.disk = probe.before
                           /\ probe.loaded = storeLoad(probe.before)

C16_Witness ==
    /\ probe.op = "store" /\ probe.stage = "loaded" /\ probe.wrote
    /\ Len(probe.map) = 3
    /\ probe.map[1][1] = <<"d", "1">> /\ probe.map[2][1] = <<"1", "0">>
    /\ probe.loaded[1][1] = <<"2">> /\ probe.loaded[3] = probe.map[1]

\* C20: the logged form of a destination URL with a path never is the URL
\* itself, and never shows its last path segment (the token) in full.
C20_Masked ==
    (probe.op = "mask" /\ probe.stage = "logged" /\ probe.valid
        /\ Len(probe.segs) >= 1) =>
        /\ probe.logged.pathname # probe.pathname
        /\ \A i \in DOMAIN split(probe.logged.pathname, <<>>) :
              split(probe.logged.pathname, <<>>)[i] # probe.segs[Len(probe.segs)]

\* C21: a server state with 0 <= numHumans <= maxClients, rendered with a
\* pollInterval, gives a percentage in 0..100 and a bar of 40 cells, the
\* first round(40 * numHumans / maxClients) of them filled.
C21_BarAndPercent ==
    (/\ probe.op = "render" /\ probe.stage = "embed"
     /\ probe.pollInterval # Undefined
     /\ probe.serverData.numHumans <= probe.serverData.maxClients) =>
        LET bar == probe.embed.progressBar
            filled == Cardinality({i \in DOMAIN bar : bar[i] = "filled"})
            unfilled == Cardinality({i \in DOMAIN bar : bar[i] = "empty"})
        IN /\ ~probe.embed.raised
           /\ probe.embed.capacityPercent \in 0..100
           /\ Len(bar) = 40 /\ filled + unfilled = 40
           /\ \A i \in DOMAIN bar : bar[i] = "filled" <=> i <= filled
           /\ filled = IF probe.serverData.maxClients = 0 THEN 0
                       ELSE Round(40 * probe.serverData.numHumans,
                                  probe.serverData.maxClients)

C21_Witness ==
    /\ probe.op = "render" /\ probe.stage = "embed"
    /\ probe.serverData = [numHumans |-> 2, maxClients |-> 32]
    /\ ~probe.embed.raised
    /\ probe.embed.progressBar[3] = "filled" /\ probe.embed.progressBar[4] = "empty"
    /\ probe.embed.capacityPercent = 6

\* C22: the percentage of every server state is
\* round(100 * numHumans / max(maxClients, 1)).
C22_Percent ==
    (probe.op = "render" /\ probe.stage = "embed") =>
        probe.embed.capacityPercent =
            Round(100 * probe.serverData.numHumans,
                  IF probe.serverData.maxClients >= 1 THEN probe.serverData.maxClients
                  ELSE 1)

\* C23: the player table holds the named players, each once, ordered by
\* descending score, then by descending time among players of score 0 and by
\* ascending time among players of one nonzero score; every permutation of
\* the input gives the same table.
C23_Before(p, q) ==
    \/ p.score > q.score
    \/ p.score = q.score /\ p.score = 0 /\ p.time > q.time
    \/ p.score = q.score /\ p.score # 0 /\ p.time < q.time

C23_PlayerOrder ==
    (probe.op = "sort" /\ probe.stage = "table") =>
        LET in == probe.humanData
            out == probe.sorted
        IN /\ {out[i] : i \in DOMAIN out} = {in[i] : i \in {j \in DOMAIN in : named(in[j])}}
           /\ \A i, j \in DOMAIN out : i < j => C23_Before(out[i], out[j])
           /\ \A other \in HumanDatas :
                 {other[i] : i \in DOMAIN other} = {in[i] : i \in DOMAIN in}
                     => sortedPlayers(other) = out
           /\ in = <<[name |-> <<"a">>, score |-> 0, time |-> 10],
                     [name |-> <<"b">>, score |-> 0, time |-> 20],
                     [name |-> <<"c">>, score |-> 5, time |-> 3],
                     [name |-> <<"d">>, score |-> 5, time |-> 1]>>
                 => out = <<in[4], in[3], in[2], in[1]>>

C23_Witness ==
    /\ probe.op = "sort" /\ probe.stage = "table"
    /\ Len(probe.humanData) = 4
    /\ probe.humanData[1].name = <<"a">> /\ probe.humanData[2].name = <<"b">>
    /\ probe.humanData[3].name = <<"c">> /\ probe.humanData[4].name = <<"d">>
    /\ probe.sorted[1].name = <<"d">> /\ probe.sorted[4].name = <<"a">>

\* C24: formatTime gives "0s" for zero or no seconds, and otherwise the
\* non-zero ones of hours, minutes and seconds, in that order, which
\* recompose to the input.
C24_Rank(unit) == CASE unit = "h" -> 1 [] unit = "m" -> 2 [] unit = "s" -> 3

C24_Factor(unit) == CASE unit = "h" -> 3600 [] unit = "m" -> 60 [] unit = "s" -> 1

RECURSIVE C24_Total(_)
C24_Total(text) ==
    IF text = <<>> THEN 0 ELSE Head(text).n * C24_Factor(Head(text).unit) + C24_Total(Tail(text))

C24_FormatTime ==
    (probe.op = "format" /\ probe.stage = "text") =>
        LET text == probe.text
            v == probe.seconds.value
        IN /\ (~probe.seconds.present \/ v = 0) => text = <<[n |-> 0, unit |-> "s"]>>
           /\ (probe.seconds.present /\ v > 0) =>
                 /\ Len(text) >= 1
                 /\ \A i \in DOMAIN text : text[i].n > 0
                 /\ \A i \in DOMAIN text : text[i].unit # "h" => text[i].n < 60
                 /\ \A i, j \in DOMAIN text :
                       i < j => C24_Rank(text[i].unit) < C24_Rank(text[j].unit)
                 /\ C24_Total(text) = v
           /\ v = 45 => text = <<[n |-> 45, unit |-> "s"]>>
           /\ v = 3661 => text = <<[n |-> 1, unit |-> "h"], [n |-> 1, unit |-> "m"],
                                   [n |-> 1, unit |-> "s"]>>
           /\ v = 7200 => text = <<[n |-> 2, unit |-> "h"]>>

C24_Witness ==
    /\ probe.op = "format" /\ probe.stage = "text"
    /\ probe.seconds = [present |-> TRUE, value |-> 3661]
    /\ Len(probe.text) = 3 /\ probe.text[2] = [n |-> 1, unit |-> "m"]

\* C25: a cycle starts only by a checkServer call made while Idle, one cycle
\* per such call; a call made while Running starts nothing, then or later:
\* when the running cycle ends the controller is Idle and stays so until the
\* next call.
C25_Step ==
    /\ pc = "idle" =>
          (CheckServer /\ ~isRunning /\ pc' = "get" /\ getCalls' = 1
              /\ activeCycles' = activeCycles + 1)
    /\ (pc # "idle" /\ CheckServer) =>
          (pc' = pc /\ getCalls' = getCalls /\ activeCycles' = activeCycles)
    /\ (isRunning /\ ~isRunning') => (pc' = "idle" /\ activeCycles' = 0)

C25_Dropped == [][C25_Step]_vars

C25_Witness ==
    /\ pc = "idle" /\ ~isRunning /\ skipped
    /\ getCalls = 4 /\ delivery.done

\* C26: while the attempts of one delivery complete in any order, every
\* destination's entry is what its own attempt made of it (the id its POST
\* returned, or nothing after an eviction without such an id), an attempt
\* leaves the other entries alone, and once all have settled the file holds
\* exactly that mapping.
C26_Own ==
    \A d \in webhookUrls :
        /\ postedId[d] # None => lastMessageIds[d] = postedId[d]
        /\ (postedId[d] = None /\ failedId[d] # None) => lastMessageIds[d] = None

C26_Mutated == \E d \in webhookUrls : postedId[d] # None \/ failedId[d] # None

C26_Original ==
    /\ C26_Own
    /\ (pc = "deliver" /\ allSettled(results, webhookUrls) /\ C26_Mutated) =>
           file = [kind |-> "json", map |-> lastMessageIds]

\* C26 (amended): the in-memory part as above; a write puts the whole current
\* mapping into the file, so once all have settled the file holds that
\* mapping provided the last write succeeded.
C26_Step ==
    /\ \A d \in Dests :
          (PatchOk(d) \/ PatchFail(d) \/ PostOk(d) \/ PostFail(d)) =>
              \A k \in Keys \ {d} : lastMessageIds'[k] = lastMessageIds[k]
    /\ file' # file => file' = [kind |-> "json", map |-> lastMessageIds']

C26_Amended ==
    /\ [](/\ C26_Own
          /\ (/\ pc = "deliver" /\ allSettled(results, webhookUrls)
              /\ C26_Mutated /\ lastSave = "ok") =>
                 file = [kind |-> "json", map |-> lastMessageIds])
    /\ [][C26_Step]_vars

C26_Witness ==
    \E d, e \in webhookUrls :
        /\ pc = "deliver" /\ allSettled(results, webhookUrls)
        /\ failedId[d] = OldId /\ postedId[d] = None /\ lastMessageIds[d] = None
        /\ failedId[e] = OldId /\ postedId[e] = 2 /\ lastMessageIds[e] = 2
        /\ file = [kind |-> "json", map |-> lastMessageIds]

\* C27: a POST answered 2xx without an id makes the destination's delivery
\* report success and touches neither the mapping nor the file; the
\* destination then has no entry, and a delivery that starts for a
\* destination without entry sends it a POST, no PATCH.
C27_Step ==
    /\ \A d \in Dests :
          (PostOk(d) /\ postedId'[d] = None) =>
              /\ results'[d] = Fulfilled(TRUE)
              /\ lastMessageIds' = lastMessageIds /\ lastMessageIds'[d] = None
              /\ file' = file
    /\ (pc # "deliver" /\ pc' = "deliver") =>
          \A d \in webhookUrls :
              lastMessageIds[d] = None =>
                  (inflight'[d] = "post" /\ postCount'[d] = 1 /\ patchCount'[d] = 0)

C27_NoIdNoEntry ==
    /\ [](\A d \in webhookUrls :
            (results[d] = Fulfilled(TRUE) /\ postCount[d] = 1 /\ postedId[d] = None)
                => lastMessageIds[d] = None)
    /\ [][C27_Step]_vars

C27_Witness ==
    \E d \in webhookUrls :
        /\ pc = "deliver" /\ payload = "error"
        /\ patchCount[d] = 0 /\ postCount[d] = 1 /\ postedId[d] = None
        /\ results[d] = Fulfilled(TRUE)
        /\ lastMessageIds[d] = None

\* C29: when the write made by a mutation fails, the file is left as it was,
\* the mapping carries the mutation, the attempt goes on as after a
\* successful write (POST after an eviction, success after a new id), and
\* the cycle keeps awaiting the delivery.
C29_Step ==
    \A d \in Dests :
        (/\ PatchFail(d) \/ PostOk(d)
         /\ lastMessageIds' # lastMessageIds
         /\ lastSave' = "failed") =>
            /\ file' = file
            /\ pc' = "deliver" /\ isRunning' /\ caught' = caught
            /\ PatchFail(d) =>
                  /\ lastMessageIds' = deleteMessageId(lastMessageIds, d)
                  /\ inflight'[d] = "post" /\ results'[d] = Pending
            /\ PostOk(d) =>
                  /\ postedId'[d] # None
                  /\ lastMessageIds' = setMessageId(lastMessageIds, d, postedId'[d])
                  /\ inflight'[d] = "none" /\ results'[d] = Fulfilled(TRUE)

C29_WriteFailureSwallowed == [][C29_Step]_vars

C29_Witness ==
    \E d \in webhookUrls :
        /\ pc = "deliver" /\ lastSave = "failed"
        /\ postedId[d] = 2 /\ lastMessageIds[d] = 2
        /\ results[d] = Fulfilled(TRUE)
        /\ file.kind = "json" /\ file.map[d] = OldId

\* C30: the attempt that succeeds is the last of its fetch: a fetch that
\* succeeds on attempt k has called the endpoint k times and slept k - 1
\* times, with k <= maxRetries + 1, and no request or sleep follows before
\* the next cycle starts.
C30_Step ==
    /\ GetOk =>
          /\ getCalls = retryCount + 1 /\ sleeps = retryCount
          /\ getCalls <= maxRetries + 1
          /\ getCalls' = getCalls /\ sleeps' = sleeps
          /\ pc' \notin {"get", "sleep"}
    /\ (pc \notin {"get", "sleep"} /\ <<getCalls', sleeps'>> # <<getCalls, sleeps>>) =>
          (CheckServer /\ pc = "idle")

C30_StopsAtSuccess == [][C30_Step]_vars

C30_Witness ==
    /\ pc = "idle" /\ caught = RenderErr
    /\ getCalls = 3 /\ sleeps = 2 /\ retryCount = 2
    /\ consecutiveErrors = 0

\* C28: no exception leaves checkServer. Whatever the fetch, the renderer, the
\* deliveries and the writes of message-ids.json did, no checkServer promise
\* is ever rejected, and every step that ends a cycle leaves the controller
\* idle with the guard open, so that the next trigger starts a cycle.
C28_Step ==
    (pc # "idle" /\ pc' = "idle") =>
        /\ ~unhandled'
        /\ ~isRunning' /\ activeCycles' = 0
        /\ ~checkServerSkips(isRunning')

C28_NeverPropagates == [](~unhandled) /\ [][C28_Step]_vars

C28_Witness ==
    /\ pc = "idle" /\ ~isRunning /\ ~unhandled
    /\ caught = FetchErr(maxRetries) /\ consecutiveErrors = ErrorThreshold
    /\ delivery.done /\ ~delivery.ok
    /\ lastSave = "failed"

\* C31: the rows of the player table are the humanData entries whose name
\* holds a character that is not whitespace, one row each with the name, the
\* score and the formatted time of its entry; an entry without a name, with
\* an empty name or with a name of whitespace only has no row; without such
\* an entry, and without a humanData array, no table field is added.
C31_HasName(p) ==
    "name" \in DOMAIN p /\ \E i \in DOMAIN p.name : p.name[i] \notin {" ", "\t"}

C31_PlayerTable ==
    (probe.op = "table" /\ probe.stage = "fields") =>
        LET in == IF "humanData" \in DOMAIN probe.serverData
                  THEN probe.serverData.humanData ELSE <<>>
            shown == {i \in DOMAIN in : C31_HasName(in[i])}
            fields == probe.fields
        IN IF shown = {}
           THEN fields = <<>>
           ELSE /\ Len(fields) = 3
                /\ <<fields[1].name, fields[2].name, fields[3].name>>
                       = <<"Name", "Score", "Time Played">>
                /\ \A c \in 1..3 : Len(fields[c].value) = Cardinality(shown)
                /\ \A i \in shown : \E r \in 1..Cardinality(shown) :
                       /\ fields[1].value[r] = in[i].name
                       /\ fields[2].value[r] = in[i].score
                       /\ fields[3].value[r]
                              = formatTime([present |-> TRUE, value |-> in[i].time])

C31_Witness ==
    /\ probe.op = "table" /\ probe.stage = "fields"
    /\ "humanData" \in DOMAIN probe.serverData
    /\ Len(probe.serverData.humanData) = 4
    /\ \E i, j, k \in 1..4 :
          /\ "name" \notin DOMAIN probe.serverData.humanData[i]
          /\ probe.serverData.humanData[j] = [name |-> <<" ">>, score |-> 7, time |-> 9]
          /\ probe.serverData.humanData[k] = [name |-> <<>>, score |-> 1, time |-> 2]
    /\ Len(probe.fields) = 3
    /\ probe.fields[1].value = << <<" ", "b", " ">> >>

\* C32: an entry of the mapping whose key is not a configured destination
\* is never changed or removed: every step leaves it as it was, every write
\* of message-ids.json holds it as it was, and at any moment it is what
\* loading the file would give.
C32_Step ==
    \A k \in Keys \ webhookUrls :
        /\ lastMessageIds'[k] = lastMessageIds[k]
        /\ file' # file => file'.kind = "json" /\ file'.map[k] = lastMessageIds[k]

C32_ForeignEntriesKept ==
    /\ [](\A k \in Keys \ webhookUrls : lastMessageIds[k] = loadMessageIds(file)[k])
    /\ [][C32_Step]_vars

C32_Witness ==
    /\ webhookUrls = {"d1"} /\ lastSave = "ok" /\ file.kind = "json"
    /\ lastMessageIds["d1"] = 2 /\ file.map["d1"] = 2
    /\ lastMessageIds["d2"] = OldId /\ file.map["d2"] = OldId
    /\ lastMessageIds["d3"] = OldId /\ file.map["d3"] = OldId

\* C33: both payloads go to the message on record for the destination. A
\* cycle that starts an error delivery PATCHes the message on record and
\* POSTs where there is none; the first cycle whose fetch succeeds after the
\* error threshold was reached delivers a status payload, as a PATCH of the
\* message the error payload went to.
C33_Step ==
    /\ (pc = "get" /\ pc' = "deliver" /\ payload' = "error") =>
          \A d \in webhookUrls :
              inflight'[d] = IF lastMessageIds[d] # None THEN "patch" ELSE "post"
    /\ \A d \in webhookUrls :
          (GetOk /\ consecutiveErrors >= ErrorThreshold /\ lastMessageIds[d] # None) =>
              pc' = "deliver" /\ payload' = "status" /\ inflight'[d] = "patch"

C34_Overfull(serverData) ==
    LET capacity == IF serverData.maxClients = 0 THEN 24 ELSE serverData.maxClients
    IN (2 * 40 * serverData.numHumans + capacity) \div (2 * capacity) > 40

C34_Step ==
    \A serverData \in ServerDatas :
        (C34_Overfull(serverData) /\ GetOkWith(serverData)) =>
            /\ caught' = RangeErr
            /\ consecutiveErrors' = 0
            /\ pc' = "idle" /\ ~isRunning' /\ payload' = "none"
            /\ \A d \in Dests : inflight'[d] = "none" /\ patchCount'[d] = 0 /\ postCount'[d] = 0
            /\ delivery' = NoDelivery
            /\ lastNotificationTime' = lastNotificationTime
            /\ lastMessageIds' = lastMessageIds /\ file' = file

C34_OverfullBarRaises == [][C34_Step]_vars

C34_Witness ==
    /\ pc = "idle" /\ ~isRunning /\ caught = RangeErr
    /\ consecutiveErrors = 0 /\ delivery = NoDelivery
    /\ webhookUrls = {"d1"} /\ lastMessageIds["d1"] = 2
    /\ lastNotificationTime = "null"

\* C35: the counter of consecutive failures changes only in a step that
\* settles a GET. The step in which the renderer raises leaves it at 0 and
\* ends the cycle without a delivery; no step of a delivery changes it,
\* however the destinations answer; and an error delivery starts only in a
\* step in which the fetcher has counted one more exhausted fetch and the
\* count has reached the threshold.
C35_Step ==
    /\ consecutiveErrors' # consecutiveErrors => pc = "get"
    /\ (pc = "get" /\ caught' \in {RenderErr, RangeErr}) =>
          consecutiveErrors' = 0 /\ pc' = "idle" /\ payload' = "none"
    /\ pc = "deliver" => consecutiveErrors' = consecutiveErrors
    /\ (pc # "deliver" /\ pc' = "deliver" /\ payload' = "error") =>
          /\ consecutiveErrors' = consecutiveErrors + 1
          /\ consecutiveErrors' >= ErrorThreshold
          /\ caught' = FetchErr(maxRetries)

C35_OnlyFetcherCounts == [][C35_Step]_vars

C35_Witness ==
    /\ pc = "idle" /\ ~isRunning /\ caught = RenderErr
    /\ consecutiveErrors = 0 /\ exhaustedStreak = 0 /\ getCalls = 1
    /\ webhookUrls = {"d1", "d2"} /\ lastSave = "failed"
    /\ delivery = NoDelivery

====
